---- MODULE Spec2Model ----
(***************************************************************************)
(* Model of main.py: the YouTube chapter generator API.                    *)
(*                                                                         *)
(* Python strings that the code searches, splits or strips are sequences   *)
(* of one-character strings.  Language codes and error causes are never    *)
(* inspected character by character and stay TLA+ strings.                  *)
(***************************************************************************)
EXTENDS Integers, Sequences, FiniteSets, TLC

VARIABLES
    pc,                \* position of generate_chapters in the request
    request,           \* VideoRequest: [url, language]
    transcript,        \* local of generate_chapters: the formatted transcript
    detected_language, \* local of generate_chapters
    full_text,         \* local of generate_chapters
    initial_chapters,  \* local of generate_chapters
    refined_chapters,  \* local of generate_chapters
    response,          \* what the client receives
    calls,             \* log of the external calls made during the request
    returned,          \* what each stage handed back to generate_chapters
    stage,             \* pure-function specifications: "pending" or "done"
    input,             \* pure-function specifications: the argument
    output             \* pure-function specifications: the result

vars == <<pc, request, transcript, detected_language, full_text,
          initial_chapters, refined_chapters, response, calls, returned,
          stage, input, output>>

handlerVars == <<pc, request, transcript, detected_language, full_text,
                 initial_chapters, refined_chapters, response, calls, returned>>

fnVars == <<stage, input, output>>

----------------------------------------------------------------------------
(* Bounds of the model *)

MaxUrlTokens == 5
MaxTracks == 2
MaxEntries == 2
MaxLines == 1
MaxParseLines == 3

----------------------------------------------------------------------------
(* Python str operations on sequences of characters *)

Whitespace == {" ", "\n", "\t", "\r"}

\* s[i:i+len(sep)] == sep, 1-based
MatchAt(s, sep, i) ==
    /\ i >= 1
    /\ i + Len(sep) - 1 <= Len(s)
    /\ SubSeq(s, i, i + Len(sep) - 1) = sep

\* sep in s
Contains(s, sep) == \E i \in 1..(Len(s) + 1) : MatchAt(s, sep, i)

\* s.split(sep, maxsplit): a left-to-right scan; i is the scan position,
\* start the first character of the piece being collected, left the number
\* of splits still allowed (-1: no limit)
RECURSIVE SplitScan(_, _, _, _, _)
SplitScan(s, sep, i, start, left) ==
    IF left = 0 \/ i + Len(sep) - 1 > Len(s)
    THEN <<SubSeq(s, start, Len(s))>>
    ELSE IF MatchAt(s, sep, i)
         THEN <<SubSeq(s, start, i - 1)>>
              \o SplitScan(s, sep, i + Len(sep), i + Len(sep),
                           IF left > 0 THEN left - 1 ELSE left)
         ELSE SplitScan(s, sep, i + 1, start, left)

Split(s, sep) == SplitScan(s, sep, 1, 1, -1)

SplitMax(s, sep, maxsplit) == SplitScan(s, sep, 1, 1, maxsplit)

\* s.lstrip() / s.rstrip() / s.strip()
RECURSIVE LStrip(_)
LStrip(s) ==
    IF s # <<>> /\ Head(s) \in Whitespace THEN LStrip(Tail(s)) ELSE s

RECURSIVE RStrip(_)
RStrip(s) ==
    IF s # <<>> /\ s[Len(s)] \in Whitespace
    THEN RStrip(SubSeq(s, 1, Len(s) - 1))
    ELSE s

Strip(s) == LStrip(RStrip(s))

\* sep.join(parts)
RECURSIVE Join(_, _)
Join(sep, parts) ==
    IF parts = <<>> THEN <<>>
    ELSE IF Len(parts) = 1 THEN parts[1]
    ELSE parts[1] \o sep \o Join(sep, Tail(parts))

\* all sequences over S of length at most n
SeqsUpTo(S, n) == UNION {[1..k -> S] : k \in 0..n}

----------------------------------------------------------------------------
(* Exceptions and results *)

NoExc == [type |-> "None", status |-> 0, detail |-> <<>>]

ValueError(msg) == [type |-> "ValueError", status |-> 0, detail |-> <<msg>>]

ProviderError(kind, msg) == [type |-> kind, status |-> 0, detail |-> <<msg>>]

\* fastapi.HTTPException derives from Exception, not from ValueError
HTTPException(status_code, detail) ==
    [type |-> "HTTPException", status |-> status_code, detail |-> detail]

\* str(e): the message of e; for an HTTPException the detail it carries
StrOf(e) == e.detail

Return(v) == [ok |-> TRUE, value |-> v, exc |-> NoExc]

Raise(e) == [ok |-> FALSE, value |-> <<>>, exc |-> e]

----------------------------------------------------------------------------
(* extract_video_id *)

VEq == <<"v", "=">>

YoutuBe == <<"y", "o", "u", "t", "u", ".", "b", "e", "/">>

Https == <<"h", "t", "t", "p", "s", ":", "/", "/">>

extract_video_id(url) ==
    IF Contains(url, VEq)
    THEN Return(Split(Split(url, VEq)[2], <<"&">>)[1])
    ELSE IF Contains(url, YoutuBe)
    THEN Return(Split(Split(url, YoutuBe)[2], <<"?">>)[1])
    ELSE Raise(ValueError("Invalid YouTube URL"))

----------------------------------------------------------------------------
(* format_time *)

DigitChars == <<"0", "1", "2", "3", "4", "5", "6", "7", "8", "9">>

\* str(n) for n >= 0
RECURSIVE Decimal(_)
Decimal(n) ==
    IF n < 10 THEN <<DigitChars[n + 1]>>
    ELSE Decimal(n \div 10) \o <<DigitChars[(n % 10) + 1]>>

\* f"{n:02}"
Format02(n) == IF n < 10 THEN <<"0">> \o Decimal(n) ELSE Decimal(n)

format_time(seconds) ==
    LET minutes == seconds \div 60
        secs == seconds % 60
    IN Format02(minutes) \o <<":">> \o Format02(secs)

----------------------------------------------------------------------------
(* The transcript provider and fetch_transcript *)

None == "None"

TrackCodes == {"en", "fr", "de"}

Languages == {None, "", "en", "fr"}

RawEntries ==
    { [start |-> 0, duration |-> 4, text |-> <<"h", "i">>],
      [start |-> 65, duration |-> 2, text |-> <<"o", "k">>] }

\* YouTubeTranscriptApi.list_transcripts(video_id): the listed tracks, in the
\* provider's iteration order, or an error
ListingOutcomes ==
    {[ok |-> TRUE, tracks |-> t, exc |-> NoExc] :
        t \in SeqsUpTo(TrackCodes, MaxTracks)}
    \cup {[ok |-> FALSE, tracks |-> <<>>,
           exc |-> ProviderError("VideoUnavailable", "video unavailable")]}

\* Transcript.fetch(): the entries of the track, or an error
FetchOutcomes ==
    {[ok |-> TRUE, entries |-> e, exc |-> NoExc] :
        e \in SeqsUpTo(RawEntries, MaxEntries)}
    \cup {[ok |-> FALSE, entries |-> <<>>,
           exc |-> ProviderError("RequestException", "network error")]}

Codes(tracks) == {tracks[i] : i \in 1..Len(tracks)}

\* a selection that takes the first listed track without looking for "en"
SelectLanguage_FirstTrack(language_code, tracks) ==
    IF language_code \in {None, ""}
    THEN IF tracks = <<>>
         THEN Raise(ProviderError("StopIteration", ""))
         ELSE Return(tracks[1])
    ELSE Return(language_code)

\* the language selection of fetch_transcript: `not language_code` holds for
\* None and for the empty string
SelectLanguage(language_code, tracks) ==
    IF language_code \in {None, ""}
    THEN IF "en" \in Codes(tracks)
         THEN Return("en")
         ELSE IF tracks = <<>>
              THEN Raise(ProviderError("StopIteration", ""))
              ELSE Return(tracks[1])
    ELSE Return(language_code)

\* transcript_list.find_transcript([language_code])
find_transcript(tracks, language_code) ==
    IF language_code \in Codes(tracks)
    THEN Return(language_code)
    ELSE Raise(ProviderError("NoTranscriptFound", "no transcript found"))

FormatEntry(entry) ==
    [time |-> format_time(entry.start), text |-> entry.text,
     start |-> entry.start, duration |-> entry.duration]

FormatTranscript(entries) ==
    [i \in 1..Len(entries) |-> FormatEntry(entries[i])]

WithCalls(r, c) ==
    [ok |-> r.ok, value |-> r.value, exc |-> r.exc, calls |-> c]

\* the except clause of fetch_transcript
FetchExcept(e) ==
    Raise(HTTPException(404, <<"Error fetching transcript: ">> \o StrOf(e)))

ListCall(video_id, listing) ==
    [op |-> "list_transcripts", arg |-> video_id, ok |-> listing.ok,
     result |-> listing.tracks]

FetchCall(language_code, fetched) ==
    [op |-> "fetch", arg |-> language_code, ok |-> fetched.ok,
     result |-> fetched.entries]

\* fetch_transcript; listing and fetched are what the provider answers when
\* it is asked
fetch_transcript(video_url, language_code, listing, fetched) ==
    LET id == extract_video_id(video_url)
    IN IF ~id.ok THEN WithCalls(FetchExcept(id.exc), <<>>)
       ELSE LET listed == <<ListCall(id.value, listing)>>
            IN IF ~listing.ok THEN WithCalls(FetchExcept(listing.exc), listed)
               ELSE LET sel == SelectLanguage(language_code, listing.tracks)
                    IN IF ~sel.ok THEN WithCalls(FetchExcept(sel.exc), listed)
                       ELSE LET found == find_transcript(listing.tracks, sel.value)
                                asked == listed \o <<FetchCall(sel.value, fetched)>>
                            IN IF ~found.ok
                               THEN WithCalls(FetchExcept(found.exc), listed)
                               ELSE IF ~fetched.ok
                               THEN WithCalls(FetchExcept(fetched.exc), asked)
                               ELSE WithCalls(
                                        Return([transcript |-> FormatTranscript(fetched.entries),
                                                language |-> sel.value]),
                                        asked)

----------------------------------------------------------------------------
(* The generative model and the two chapter passes *)

Dash == <<" ", "-", " ">>

Colon == <<":">>

Newline == <<"\n">>

\* lines a model reply is made of in the request specification
ReplyLines ==
    { <<"0", ":", "0", " ", "-", " ", "A">>,
      <<"n", "o">> }

ReplyTexts == {Join(Newline, ls) : ls \in SeqsUpTo(ReplyLines, MaxLines)}

ModelErrors ==
    { ProviderError("ResourceExhausted", "quota exceeded"),
      ValueError("response.text: no candidates") }

\* model.generate_content(prompt) followed by response.text
ModelReplies ==
    {[ok |-> TRUE, text |-> t, exc |-> NoExc] : t \in ReplyTexts}
    \cup {[ok |-> FALSE, text |-> <<>>, exc |-> e] : e \in ModelErrors}

\* "\n".join([f"[{entry['time']}] {entry['text']}" for entry in transcript])
TranscriptWithTimestamps(entries) ==
    Join(Newline,
         [i \in 1..Len(entries) |->
             <<"[">> \o entries[i].time \o <<"]", " ">> \o entries[i].text])

\* "\n".join([f"{chapter['timestamp']} - {chapter['title']}" ...])
InitialChaptersFormatted(chapters) ==
    Join(Newline,
         [i \in 1..Len(chapters) |->
             chapters[i].timestamp \o Dash \o chapters[i].title])

DraftPrompt(entries) ==
    [pass |-> "draft", temperature10 |-> 3,
     initial_chapters_formatted |-> <<>>,
     transcript_with_timestamps |-> TranscriptWithTimestamps(entries)]

\* a refine prompt built without the draft chapters
RefinePrompt_WithoutDraft(chapters, entries) ==
    [pass |-> "refine", temperature10 |-> 1,
     initial_chapters_formatted |-> <<>>,
     transcript_with_timestamps |-> TranscriptWithTimestamps(entries)]

RefinePrompt(chapters, entries) ==
    [pass |-> "refine", temperature10 |-> 1,
     initial_chapters_formatted |-> InitialChaptersFormatted(chapters),
     transcript_with_timestamps |-> TranscriptWithTimestamps(entries)]

ModelCall(prompt, reply) ==
    [op |-> "generate_content", arg |-> prompt, ok |-> reply.ok,
     result |-> reply.text]

\* the parse loop of generate_chapters_with_gemini
RECURSIVE DraftLoop(_)
DraftLoop(chapters_text) ==
    IF chapters_text = <<>> THEN <<>>
    ELSE LET chapter == Head(chapters_text)
             parts == SplitMax(chapter, Dash, 1)
         IN (IF Contains(chapter, Dash) /\ Contains(Split(chapter, Dash)[1], Colon)
             THEN <<[timestamp |-> Strip(parts[1]), title |-> Strip(parts[2])]>>
             ELSE <<>>)
            \o DraftLoop(Tail(chapters_text))

\* a parse that splits a line at every " - " and keeps the second piece only
RECURSIVE DraftLoopEveryDash(_)
DraftLoopEveryDash(chapters_text) ==
    IF chapters_text = <<>> THEN <<>>
    ELSE LET chapter == Head(chapters_text)
             parts == Split(chapter, Dash)
         IN (IF Contains(chapter, Dash) /\ Contains(parts[1], Colon)
             THEN <<[timestamp |-> Strip(parts[1]), title |-> Strip(parts[2])]>>
             ELSE <<>>)
            \o DraftLoopEveryDash(Tail(chapters_text))

ParseDraft_SplitsEveryDash(text) ==
    DraftLoopEveryDash(Split(Strip(text), Newline))

ParseDraft(text) == DraftLoop(Split(Strip(text), Newline))

\* the parse loop of refine_chapters_with_gemini
RECURSIVE RefineLoop(_)
RefineLoop(refined_chapters_text) ==
    IF refined_chapters_text = <<>> THEN <<>>
    ELSE LET chapter == Head(refined_chapters_text)
             parts == SplitMax(chapter, Dash, 1)
         IN (IF Contains(chapter, Dash) /\ Contains(Split(chapter, Dash)[1], Colon)
             THEN <<[timestamp |-> Strip(parts[1]), title |-> Strip(parts[2])]>>
             ELSE <<>>)
            \o RefineLoop(Tail(refined_chapters_text))

ParseRefined(text) == RefineLoop(Split(Strip(text), Newline))

\* a draft pass that treats an empty chapter list as an error
generate_chapters_with_gemini_RejectsEmpty(entries, reply) ==
    WithCalls(
        IF reply.ok /\ ParseDraft(reply.text) # <<>>
        THEN Return(ParseDraft(reply.text))
        ELSE Raise(HTTPException(500,
                 <<"Error generating chapters with AI: ">> \o StrOf(reply.exc))),
        <<ModelCall(DraftPrompt(entries), reply)>>)

generate_chapters_with_gemini(entries, reply) ==
    WithCalls(
        IF reply.ok
        THEN Return(ParseDraft(reply.text))
        ELSE Raise(HTTPException(500,
                 <<"Error generating chapters with AI: ">> \o StrOf(reply.exc))),
        <<ModelCall(DraftPrompt(entries), reply)>>)

\* a refine pass that falls back to the draft chapters when the call fails
refine_chapters_with_gemini_FallsBack(chapters, entries, reply) ==
    WithCalls(
        IF reply.ok
        THEN Return(ParseRefined(reply.text))
        ELSE Return(chapters),
        <<ModelCall(RefinePrompt(chapters, entries), reply)>>)

refine_chapters_with_gemini(chapters, entries, reply) ==
    WithCalls(
        IF reply.ok
        THEN Return(ParseRefined(reply.text))
        ELSE Raise(HTTPException(500,
                 <<"Error refining chapters with AI: ">> \o StrOf(reply.exc))),
        <<ModelCall(RefinePrompt(chapters, entries), reply)>>)

----------------------------------------------------------------------------
(* generate_chapters: the handler of POST /generate_chapters *)

\* `except Exception as ai_error` around the two passes and the result
InnerExcept(ai_error) ==
    HTTPException(500, <<"Error processing with AI: ">> \o StrOf(ai_error))

\* `except ValueError` then `except Exception` of generate_chapters
OuterExcept(e) ==
    IF e.type = "ValueError"
    THEN HTTPException(400, StrOf(e))
    ELSE HTTPException(500, <<"An unexpected error occurred: ">> \o StrOf(e))

\* what the framework sends for a raised HTTPException
ErrorResponse(e) == [status |-> e.status, body |-> [detail |-> e.detail]]

\* " ".join([entry["text"] for entry in transcript])
FullText(entries) ==
    Join(<<" ">>, [i \in 1..Len(entries) |-> entries[i].text])

\* a result that reports the refined list in both chapter fields
SuccessBody_RefinedTwice(video_id, lang, entries, text, initial, refined) ==
    [success |-> TRUE, video_id |-> video_id, language |-> lang,
     transcript |-> entries, full_text |-> text,
     initial_chapters |-> refined, chapters |-> refined]

\* the dictionary generate_chapters returns
SuccessBody(video_id, lang, entries, text, initial, refined) ==
    [success |-> TRUE, video_id |-> video_id, language |-> lang,
     transcript |-> entries, full_text |-> text,
     initial_chapters |-> initial, chapters |-> refined]

NoResponse == [status |-> 0, body |-> [detail |-> <<>>]]

StageResult(name, r) == [stage |-> name, ok |-> r.ok, value |-> r.value]

RequestUrls ==
    { <<>>,
      <<"a", "b">>,
      <<"v", "=", "a", "&", "t">>,
      YoutuBe \o <<"b", "?", "t">> }

FnIdle ==
    /\ stage = "idle"
    /\ input = <<>>
    /\ output = Raise(NoExc)

Init ==
    /\ pc = "Received"
    /\ request \in [url : RequestUrls, language : Languages]
    /\ transcript = <<>>
    /\ detected_language = None
    /\ full_text = <<>>
    /\ initial_chapters = <<>>
    /\ refined_chapters = <<>>
    /\ response = NoResponse
    /\ calls = <<>>
    /\ returned = <<>>
    /\ FnIdle

\* transcript, detected_language = fetch_transcript(request.url, request.language)
\* and the full_text that follows it
FetchTranscript ==
    /\ pc = "Received"
    /\ \E listing \in ListingOutcomes, fetched \in FetchOutcomes :
         LET r == fetch_transcript(request.url, request.language, listing, fetched)
         IN /\ calls' = calls \o r.calls
            /\ returned' = Append(returned, StageResult("fetch", r))
            /\ IF r.ok
               THEN /\ transcript' = r.value.transcript
                    /\ detected_language' = r.value.language
                    /\ full_text' = FullText(r.value.transcript)
                    /\ pc' = "TranscriptFetched"
                    /\ UNCHANGED response
               ELSE /\ response' = ErrorResponse(OuterExcept(r.exc))
                    /\ pc' = "Done"
                    /\ UNCHANGED <<transcript, detected_language, full_text>>
    /\ UNCHANGED <<request, initial_chapters, refined_chapters, fnVars>>

\* initial_chapters = await generate_chapters_with_gemini(transcript)
Draft ==
    /\ pc = "TranscriptFetched"
    /\ \E reply \in ModelReplies :
         LET r == generate_chapters_with_gemini(transcript, reply)
         IN /\ calls' = calls \o r.calls
            /\ returned' = Append(returned, StageResult("draft", r))
            /\ IF r.ok
               THEN /\ initial_chapters' = r.value
                    /\ pc' = "Drafted"
                    /\ UNCHANGED response
               ELSE /\ response' = ErrorResponse(OuterExcept(InnerExcept(r.exc)))
                    /\ pc' = "Done"
                    /\ UNCHANGED initial_chapters
    /\ UNCHANGED <<request, transcript, detected_language, full_text,
                   refined_chapters, fnVars>>

\* refined_chapters = await refine_chapters_with_gemini(initial_chapters, transcript)
Refine ==
    /\ pc = "Drafted"
    /\ \E reply \in ModelReplies :
         LET r == refine_chapters_with_gemini(initial_chapters, transcript, reply)
         IN /\ calls' = calls \o r.calls
            /\ returned' = Append(returned, StageResult("refine", r))
            /\ IF r.ok
               THEN /\ refined_chapters' = r.value
                    /\ pc' = "Refined"
                    /\ UNCHANGED response
               ELSE /\ response' = ErrorResponse(OuterExcept(InnerExcept(r.exc)))
                    /\ pc' = "Done"
                    /\ UNCHANGED refined_chapters
    /\ UNCHANGED <<request, transcript, detected_language, full_text,
                   initial_chapters, fnVars>>

\* the return statement of generate_chapters
Respond ==
    /\ pc = "Refined"
    /\ LET id == extract_video_id(request.url)
       IN response' =
            IF id.ok
            THEN [status |-> 200,
                  body |-> SuccessBody(id.value, detected_language, transcript,
                                       full_text, initial_chapters,
                                       refined_chapters)]
            ELSE ErrorResponse(OuterExcept(InnerExcept(id.exc)))
    /\ pc' = "Done"
    /\ UNCHANGED <<request, transcript, detected_language, full_text,
                   initial_chapters, refined_chapters, calls, returned, fnVars>>

Next == FetchTranscript \/ Draft \/ Refine \/ Respond

Spec == Init /\ [][Next]_vars

----------------------------------------------------------------------------
(* extract_video_id on its own *)

UrlTokens == {Https, YoutuBe, VEq, <<"&">>, <<"?">>, <<"a">>, <<"b">>}

Urls == {Join(<<>>, ts) : ts \in SeqsUpTo(UrlTokens, MaxUrlTokens)}

HandlerIdle ==
    /\ pc = "Idle"
    /\ request = [url |-> <<>>, language |-> None]
    /\ transcript = <<>>
    /\ detected_language = None
    /\ full_text = <<>>
    /\ initial_chapters = <<>>
    /\ refined_chapters = <<>>
    /\ response = NoResponse
    /\ calls = <<>>
    /\ returned = <<>>

InitUrl ==
    /\ HandlerIdle
    /\ stage = "pending"
    /\ input \in Urls
    /\ output = Raise(NoExc)

ExtractVideoId ==
    /\ stage = "pending"
    /\ output' = extract_video_id(input)
    /\ stage' = "extracted"
    /\ UNCHANGED <<input, handlerVars>>

NextUrl == ExtractVideoId

SpecUrl == InitUrl /\ [][NextUrl]_vars

----------------------------------------------------------------------------
(* the two reply parsers on their own *)

ParseLines ==
    { <<"0", "2", ":", "1", "5", " ", "-", " ", "S", "e", "t">>,
      <<"R", "a", "n", "d", "o", "m">>,
      <<"a", " ", "-", " ", "1", ":", "0">>,
      <<"1", ":", "5", " ", "-", " ", "b", " ", "-", " ", "c">>,
      <<" ", "2", ":", "0", " ", " ", "-", " ", " ", "d", " ">>,
      <<":", " ", "-", " ">>,
      <<>> }

ParseTexts == {Join(Newline, ls) : ls \in SeqsUpTo(ParseLines, MaxParseLines)}

InitParse ==
    /\ HandlerIdle
    /\ stage = "pending"
    /\ input \in ParseTexts
    /\ output = Raise(NoExc)

ParseDraftReply ==
    /\ stage = "pending"
    /\ output' = Return(ParseDraft(input))
    /\ stage' = "draft"
    /\ UNCHANGED <<input, handlerVars>>

ParseRefineReply ==
    /\ stage = "pending"
    /\ output' = Return(ParseRefined(input))
    /\ stage' = "refine"
    /\ UNCHANGED <<input, handlerVars>>

NextParse == ParseDraftReply \/ ParseRefineReply

SpecParse == InitParse /\ [][NextParse]_vars

----------------------------------------------------------------------------
(* Vocabulary of the properties, stated by positions rather than by scans *)

Occurs(s, sep) == \E i \in 1..Len(s) : MatchAt(s, sep, i)

FirstAt(s, sep) ==
    CHOOSE i \in 1..Len(s) :
        MatchAt(s, sep, i) /\ \A j \in 1..(i - 1) : ~MatchAt(s, sep, j)

Trimmed(s) ==
    LET keep == {i \in 1..Len(s) : s[i] \notin Whitespace}
    IN IF keep = {} THEN <<>>
       ELSE SubSeq(s, CHOOSE i \in keep : \A j \in keep : i <= j,
                      CHOOSE i \in keep : \A j \in keep : i >= j)

\* the lines of a text: the maximal runs without a newline, in order
LinesOf(text) ==
    LET breaks == {i \in 1..Len(text) : text[i] = "\n"}
        starts == {1} \cup {i + 1 : i \in breaks}
        nth(k) == CHOOSE p \in starts : Cardinality({q \in starts : q < p}) = k - 1
        stop(p) == CHOOSE e \in (breaks \cup {Len(text) + 1}) :
                       e >= p /\ \A f \in breaks : f >= p => e <= f
    IN [k \in 1..Cardinality(starts) |-> SubSeq(text, nth(k), stop(nth(k)) - 1)]

\* the line contains " - " and the text before the first " - " contains ":"
MatchesRule(line) ==
    /\ Occurs(line, Dash)
    /\ Occurs(SubSeq(line, 1, FirstAt(line, Dash) - 1), Colon)

ChapterOf(line) ==
    [timestamp |-> Trimmed(SubSeq(line, 1, FirstAt(line, Dash) - 1)),
     title |-> Trimmed(SubSeq(line, FirstAt(line, Dash) + Len(Dash), Len(line)))]

ExpectedChapters(lines) ==
    LET kept == SelectSeq(lines, MatchesRule)
    IN [k \in 1..Len(kept) |-> ChapterOf(kept[k])]

BodyIsDetailOnly == DOMAIN response.body = {"detail"}

ModelCallMade(p) ==
    \E i \in 1..Len(calls) :
        calls[i].op = "generate_content" /\ calls[i].arg.pass = p

ModelCallFailed(p) ==
    \E i \in 1..Len(calls) :
        calls[i].op = "generate_content" /\ calls[i].arg.pass = p /\ ~calls[i].ok

UrlParsable == Occurs(request.url, VEq) \/ Occurs(request.url, YoutuBe)

FetchStageFailed == Len(returned) >= 1 /\ ~returned[1].ok

AnyStageFailed ==
    \/ \E i \in 1..Len(returned) : ~returned[i].ok
    \/ \E i \in 1..Len(calls) : ~calls[i].ok

----------------------------------------------------------------------------
(* Properties *)

\* C1: a request whose url contains neither "v=" nor "youtu.be/" ends with
\* HTTP 400 and a detail string, and no transcript-provider or model call
\* is made.
C1_InvalidUrlIsBadRequest ==
    (pc = "Done" /\ ~UrlParsable)
        => /\ response.status = 400
           /\ BodyIsDetailOnly
           /\ calls = <<>>

\* C2: with a parsable url, any failure while listing tracks, selecting the
\* language track or fetching its entries ends with HTTP 404 and a detail
\* string, and no model call is made.
C2_FetchFailureIsNotFound ==
    (pc = "Done" /\ UrlParsable /\ FetchStageFailed)
        => /\ response.status = 404
           /\ BodyIsDetailOnly
           /\ response.body.detail # <<>>
           /\ ~ModelCallMade("draft")
           /\ ~ModelCallMade("refine")

\* C3: when the fetch and the draft pass succeed and the refine pass fails,
\* the client receives HTTP 500 with a body that holds a detail string only;
\* a failure at any stage returns no partial result.
C3_NoPartialResult ==
    pc = "Done"
        => /\ ModelCallFailed("refine")
              => (response.status = 500 /\ BodyIsDetailOnly)
           /\ AnyStageFailed
              => (response.status # 200 /\ BodyIsDetailOnly)

C3_Witness ==
    /\ pc = "Done"
    /\ ModelCallFailed("refine")
    /\ transcript # <<>>
    /\ initial_chapters # <<>>
    /\ response.status = 500

\* C4: a 200 response holds success = true, the identifier extracted from
\* the request url, the language the fetcher used, the fetched entries in
\* their order, the list the draft pass returned as initial_chapters and the
\* list the refine pass returned as chapters.
C4_SuccessBody ==
    (pc = "Done" /\ response.status = 200)
        => LET b == response.body
               entries == calls[2].result
           IN /\ DOMAIN b = {"success", "video_id", "language", "transcript",
                             "full_text", "initial_chapters", "chapters"}
              /\ b.success = TRUE
              /\ b.video_id = extract_video_id(request.url).value
              /\ b.video_id = calls[1].arg
              /\ b.language = calls[2].arg
              /\ Len(b.transcript) = Len(entries)
              /\ \A i \in 1..Len(entries) :
                    /\ b.transcript[i].text = entries[i].text
                    /\ b.transcript[i].start = entries[i].start
                    /\ b.transcript[i].duration = entries[i].duration
              /\ returned[2].stage = "draft"
              /\ b.initial_chapters = returned[2].value
              /\ returned[3].stage = "refine"
              /\ b.chapters = returned[3].value

C4_Witness ==
    /\ pc = "Done"
    /\ response.status = 200
    /\ Len(response.body.transcript) = 2
    /\ response.body.transcript[1] # response.body.transcript[2]
    /\ response.body.initial_chapters # <<>>
    /\ response.body.chapters # response.body.initial_chapters

\* C5: for every url of the form https://youtu.be/ID?x, ID without "?",
\* extract_video_id returns exactly ID.
C5_ShortUrlGivesId ==
    stage = "extracted"
        => \A q \in 1..Len(input) :
              ( /\ MatchAt(input, Https \o YoutuBe, 1)
                /\ q > Len(Https \o YoutuBe)
                /\ input[q] = "?"
                /\ \A k \in (Len(Https \o YoutuBe) + 1)..(q - 1) : input[k] # "?" )
              => /\ output.ok
                 /\ output.value = SubSeq(input, Len(Https \o YoutuBe) + 1, q - 1)

\* C6: for every url containing v=ID&extra, ID without "&", whatever else
\* the url holds before or after it, extract_video_id returns exactly ID.
C6_WatchUrlGivesId ==
    stage = "extracted"
        => \A i \in 1..Len(input), j \in 1..Len(input) :
              ( /\ MatchAt(input, VEq, i)
                /\ j >= i + Len(VEq)
                /\ input[j] = "&"
                /\ \A k \in (i + Len(VEq))..(j - 1) : input[k] # "&" )
              => /\ output.ok
                 /\ output.value = SubSeq(input, i + Len(VEq), j - 1)

\* C7 as stated: in both passes the parsed list is the subsequence of the
\* reply's lines that contain " - " with a ":" before the first " - ", each
\* giving the trimmed text before and after the first " - ".
C7_ParsedFromReplyLines ==
    stage \in {"draft", "refine"}
        => output.value = ExpectedChapters(LinesOf(input))

\* C7 as amended: the same rule applied to the lines of the reply once the
\* whitespace at the start and at the end of the whole reply is removed.
C7_ParsedFromTrimmedReplyLines ==
    stage \in {"draft", "refine"}
        => output.value = ExpectedChapters(LinesOf(Trimmed(input)))

C7_Witness ==
    /\ stage = "refine"
    /\ Len(LinesOf(input)) = 3
    /\ Len(output.value) = 2
    /\ output.value[1] =
          [timestamp |-> <<"0", "2", ":", "1", "5">>, title |-> <<"S", "e", "t">>]
    /\ output.value[2] =
          [timestamp |-> <<"1", ":", "5">>, title |-> <<"b", " ", "-", " ", "c">>]

\* C8: with no language requested, "en" is selected and returned whenever it
\* is listed, otherwise the code of a listed track; a requested language is
\* the one selected and returned.
C8_LanguageSelection ==
    (Len(calls) >= 1 /\ calls[1].ok)
        => LET tracks == calls[1].result
               listed == {tracks[i] : i \in 1..Len(tracks)}
               Chosen(c) ==
                   IF request.language \notin {None, ""}
                   THEN c = request.language
                   ELSE IF "en" \in listed THEN c = "en" ELSE c \in listed
           IN /\ \A i \in 1..Len(calls) :
                    calls[i].op = "fetch" => Chosen(calls[i].arg)
              /\ returned[1].ok
                    => /\ Chosen(returned[1].value.language)
                       /\ Len(calls) >= 2
                       /\ calls[2].arg = returned[1].value.language
              /\ (pc = "Done" /\ response.status = 200)
                    => Chosen(response.body.language)

C8_Witness ==
    /\ pc = "Done"
    /\ response.status = 200
    /\ request.language = None
    /\ calls[1].result = <<"fr", "en">>
    /\ response.body.language = "en"

\* C9: the external calls of a request are made in the order transcript
\* fetch, draft call, refine call, each at most once and each only after the
\* one before it succeeded; the refine call receives the draft's output; the
\* request ends in exactly one of Responded, BadRequest or ServerError.
C9_SequentialNoRetry ==
    /\ Len(calls) <= 4
    /\ \A i \in 1..Len(calls) :
          /\ calls[i].op =
                <<"list_transcripts", "fetch", "generate_content", "generate_content">>[i]
          /\ i > 1 => calls[i - 1].ok
    /\ Len(calls) >= 3
          => /\ calls[3].arg.pass = "draft"
             /\ returned[1].ok
    /\ Len(calls) = 4
          => /\ calls[4].arg.pass = "refine"
             /\ returned[2].stage = "draft"
             /\ returned[2].ok
             /\ calls[4].arg.initial_chapters_formatted =
                   InitialChaptersFormatted(returned[2].value)
    /\ pc = "Done" => response.status \in {200, 400, 500}
    /\ pc # "Done" => (response = NoResponse /\ ENABLED Next)

C9_Witness ==
    /\ pc = "Done"
    /\ Len(calls) = 4
    /\ calls[4].arg.initial_chapters_formatted # <<>>
    /\ response.status = 200

====
